---- MODULE Spec2Model ----
(***************************************************************************)
(* DataFrameParallelizer (dkulib/parallelizer/parallelizer.py): a user     *)
(* function is applied to every row (or batch of rows) of a table through  *)
(* a thread pool; errors are logged into columns or abort the run.         *)
(*                                                                         *)
(* A row (dict) is a function from column names to cell values, a table is *)
(* a record [columns, rows], an exception is a record [cls, module, args]. *)
(* An optional argument (row=None, batch=None) is a sequence of length 0   *)
(* (None) or 1 (the value).                                                *)
(***************************************************************************)
EXTENDS Integers, Sequences, FiniteSets, TLC

\* Bounds of the model
MaxRows == 3
MaxWorkers == 2
MaxBatchSize == 2

\* class ErrorHandling(Enum)
LOG == "Log"
FAIL == "Fail"

VARIABLES
    pc,                  \* position of the caller: new, config_error, ready, submitting,
                         \* collecting, shutdown, returned, raised
    self,                \* attributes of the DataFrameParallelizer set by __init__
    df,                  \* the input table given to run
    fn,                  \* the (deterministic) user function: row -> outcome, as far as it was called
    units,               \* the rows (row mode) or batches (batch mode) of the generator, in order
    len_generator,       \* total given to the progress bar
    output_column_names, \* the tuple computed by _get_unique_output_column_names
    submitted,           \* number of units submitted to the pool so far
    fut,                 \* the futures: state (queued, running, finished) and outcome
    snapshot,            \* as_completed: futures found finished when the iteration started
    waiterq,             \* as_completed: futures finished since, in finishing order
    observed,            \* the futures yielded by as_completed so far, in order
    results,             \* the list results of run
    pending_exc,         \* the exception raised inside the with block, if any
    output_df,           \* the table returned by run
    function_kwargs,     \* the keyword arguments given to run
    pool_kwargs,         \* the keyword arguments run gives to every pool.submit
    call                 \* a call of the wrapper made outside run: arguments and outcome

vars == <<pc, self, df, fn, units, len_generator, output_column_names, submitted, fut,
          snapshot, waiterq, observed, results, pending_exc, output_df,
          function_kwargs, pool_kwargs, call>>

--------------------------------------------------------------------------
\* Generic helpers

Range(s) == {s[i] : i \in 1..Len(s)}

Min(a, b) == IF a < b THEN a ELSE b

\* math.ceil(n / b) for n >= 0, b >= 1
Ceil(n, b) == (n + b - 1) \div b

RECURSIVE FlattenSeq(_)
\* more_itertools.flatten: one level of flattening, order kept
FlattenSeq(ss) == IF ss = <<>> THEN <<>> ELSE Head(ss) \o FlattenSeq(Tail(ss))

\* Python optional argument: None or a value
None == <<>>
Some(v) == <<v>>

\* a plausible repair that the code does not have: presence instead of truthiness
Mut_TruthyRow(rowOpt) == rowOpt # None

\* Python truthiness of an optional dict (row) and of an optional list (batch)
TruthyRow(rowOpt) == rowOpt # None /\ DOMAIN rowOpt[1] # {}
TruthyBatch(batchOpt) == batchOpt # None /\ Len(batchOpt[1]) > 0

--------------------------------------------------------------------------
\* Exceptions and their string forms

Exc(cls, module, args) == [cls |-> cls, module |-> module, args |-> args]

NoExc == Exc("", "", <<>>)

\* inspect.getmodule finds no module for an instance of a built-in exception class
Builtin == ""

\* class BatchError(ValueError), defined in the parallelizer module
BatchErrorExc(msg) == Exc("BatchError", "dkulib.parallelizer.parallelizer", <<msg>>)

\* issubclass(cls, base) for the classes of the model
IsSubclass(cls, base) == cls = base \/ (cls = "BatchError" /\ base = "ValueError")

\* str(error): the empty string without argument, the argument when there is one
StrExc(e) == IF e.args = <<>> THEN "" ELSE e.args[1]

\* repr of a string (quote is the quote character Python picks)
ReprStr(s, quote) == quote \o s \o quote

RECURSIVE JoinRepr(_)
JoinRepr(ss) ==
    IF ss = <<>> THEN ""
    ELSE IF Len(ss) = 1 THEN ReprStr(ss[1], "'")
    ELSE ReprStr(ss[1], "'") \o ", " \o JoinRepr(Tail(ss))

\* str(errors) of a list of strings
StrList(ss) == "[" \o JoinRepr(ss) \o "]"

\* str(error.args): a tuple of zero or one string
StrArgs(e) ==
    IF e.args = <<>> THEN "()"
    ELSE "(" \o ReprStr(e.args[1], IF e.cls = "BatchError" THEN "\"" ELSE "'") \o ",)"

\* error_type: qualified class name, prefixed by the module inspect.getmodule finds
ErrorType(e) == IF e.module # "" THEN e.module \o "." \o e.cls ELSE e.cls

--------------------------------------------------------------------------
\* Output column names

\* OUTPUT_COLUMN_NAME_DESCRIPTIONS.keys(): the fields of OutputColumnNameTuple, in order
OUTPUT_COLUMN_NAME_DESCRIPTIONS == <<"response", "error_message", "error_type", "error_raw">>

RECURSIVE generate_unique_from(_, _, _)
\* first name base_j, j counting up, that is not an existing name
generate_unique_from(base, existing_names, j) ==
    LET new_name == base \o "_" \o ToString(j)
    IN  IF new_name \notin existing_names THEN new_name
        ELSE generate_unique_from(base, existing_names, j + 1)

\* dkulib.io_utils.plugin_io_utils.generate_unique: prefix_name, suffixed by a
\* number counted up until the name collides with no existing name
generate_unique(name, existing_names, prefix) ==
    LET new_name == prefix \o "_" \o name
    IN  IF new_name \notin existing_names THEN new_name
        ELSE generate_unique_from(new_name, existing_names, 1)

\* a plausible slip: the existing names are not given to generate_unique
Mut_get_unique_output_column_names(selfv, existing_names) ==
    [f \in Range(OUTPUT_COLUMN_NAME_DESCRIPTIONS) |->
        generate_unique(f, {}, selfv.output_column_prefix)]

\* DataFrameParallelizer._get_unique_output_column_names: the named tuple, as a
\* record indexed by field name
_get_unique_output_column_names(selfv, existing_names) ==
    [f \in Range(OUTPUT_COLUMN_NAME_DESCRIPTIONS) |->
        generate_unique(f, existing_names, selfv.output_column_prefix)]

\* list(output_column_names): the names in field order
NamesList(names) ==
    [i \in 1..Len(OUTPUT_COLUMN_NAME_DESCRIPTIONS) |-> names[OUTPUT_COLUMN_NAME_DESCRIPTIONS[i]]]

--------------------------------------------------------------------------
\* The user function and the batch response parser (collaborators)

\* mut: what the call does to the rows it is given: nothing ("none"), binds
\* their keys to other values ("setkey"), or changes their cell objects in
\* place ("inplace")
OutOk(resp) == [kind |-> "ok", resp |-> resp, exc |-> NoExc, msg |-> "", mut |-> "none"]
OutRaise(e) == [kind |-> "raise", resp |-> "", exc |-> e, msg |-> "", mut |-> "none"]
OutRowErr(msg) == [kind |-> "rowerr", resp |-> "", exc |-> NoExc, msg |-> msg, mut |-> "none"]
Mutating(out, how) == [out EXCEPT !.mut = how]

\* What the user function can do on one row: answer (possibly with an empty
\* response), or raise an exception with or without a message
RowOutcomes ==
    { OutOk("ok"), OutOk(""),
      OutRaise(Exc("ValueError", Builtin, <<"boom">>)),
      OutRaise(Exc("ValueError", Builtin, <<>>)),
      OutRaise(Exc("RuntimeError", Builtin, <<"down">>)) }

\* In batch mode the answer for one row of the batch can also be a row-level
\* error, which the parser writes in the error_message column of that row
BatchOutcomes == RowOutcomes \cup { OutRowErr("bad") }

Outcomes(selfv) == IF selfv.batch_support THEN BatchOutcomes ELSE RowOutcomes

\* a user function that can also change the rows it is given
MutatingOutcomes(selfv) ==
    { OutOk("ok"), OutRaise(Exc("ValueError", Builtin, <<"boom">>)),
      Mutating(OutOk("ok"), "setkey"), Mutating(OutOk("ok"), "inplace"),
      Mutating(OutRaise(Exc("ValueError", Builtin, <<"boom">>)), "inplace") }

\* the content of a row mapping after the call of the user function
RowAfterCall(row, out) == IF out.mut = "none" THEN row ELSE [c \in DOMAIN row |-> "z"]

\* the content of a batch after the call of the user function
BatchAfterCall(batch, f) == [i \in 1..Len(batch) |-> RowAfterCall(batch[i], f[batch[i]])]

\* self.function(row=row): raises or returns the response for that row
FunctionOnRow(f, row) == f[row]

\* self.function(batch=batch): raises the exception of the first row of the
\* batch that makes it fail, or returns one item per row of the batch
FunctionOnBatch(f, batch) ==
    LET bad == {i \in 1..Len(batch) : f[batch[i]].kind = "raise"}
    IN  IF bad # {}
        THEN f[batch[CHOOSE i \in bad : \A j \in bad : i <= j]]
        ELSE [kind |-> "ok", resp |-> [i \in 1..Len(batch) |-> f[batch[i]]],
              exc |-> NoExc, msg |-> ""]

\* one row of the parser's result: the row of the batch with the four output
\* columns filled from the item of the response
ParsedRow(row, item, names) ==
    (names.response :> item.resp) @@
    (names.error_message :> item.msg) @@
    (names.error_type :> (IF item.kind = "rowerr" THEN "row_error" ELSE "")) @@
    (names.error_raw :> (IF item.kind = "rowerr" THEN item.msg ELSE "")) @@
    row

\* self.batch_response_parser(batch=, response=, output_column_names=): one
\* row per row of the batch, in the order of the batch
batch_response_parser(batch, response, names) ==
    [i \in 1..Len(batch) |-> ParsedRow(batch[i], response[i], names)]

--------------------------------------------------------------------------
\* DataFrameParallelizer._apply_function_and_parse_response

Return(v) == [kind |-> "return", value |-> v, exc |-> NoExc]
Raise(e) == [kind |-> "raise", value |-> <<>>, exc |-> e]

\* a plausible slip: output is the unit itself, not a copy of it
Mut_deepcopy(obj, objAfterCall) == objAfterCall

\* deepcopy(row) made before the call of the user function: the copy keeps the
\* content the unit had then, whatever the call does to the unit
deepcopy(obj, objAfterCall) == obj

\* output[output_column] = "" for every output column
BlankRow(row, names) == [c \in Range(NamesList(names)) |-> ""] @@ row

\* a plausible slip: a bare except clause, which catches every exception
Mut_Catches(selfv, error) == TRUE

\* except self.exceptions_to_catch + (BatchError,)
Catches(selfv, error) ==
    \E c \in selfv.exceptions_to_catch \cup {"BatchError"} : IsSubclass(error.cls, c)

\* a plausible slip: the error type is not written
Mut_SetErrorColumns(row, names, error) ==
    (names.error_message :> StrExc(error)) @@
    (names.error_raw :> StrArgs(error)) @@
    row

\* the three error columns of one row set from the exception
SetErrorColumns(row, names, error) ==
    (names.error_message :> StrExc(error)) @@
    (names.error_type :> ErrorType(error)) @@
    (names.error_raw :> StrArgs(error)) @@
    row

\* a plausible slip: the except clause logs the error in fail mode too
Mut_HandleError(selfv, names, isRow, output, error) ==
    IF ~Catches(selfv, error) THEN Raise(error)
    ELSE IF isRow THEN Return(SetErrorColumns(output, names, error))
    ELSE Return([i \in 1..Len(output) |-> SetErrorColumns(output[i], names, error)])

\* the except clause: re-raise in fail mode, else write the error in the row
\* (row mode) or in every row of output (batch mode); an exception the clause
\* does not catch propagates
HandleError(selfv, names, isRow, output, error) ==
    IF ~Catches(selfv, error) THEN Raise(error)
    ELSE IF selfv.error_handling = FAIL THEN Raise(error)
    ELSE IF isRow THEN Return(SetErrorColumns(output, names, error))
    ELSE Return([i \in 1..Len(output) |-> SetErrorColumns(output[i], names, error)])

\* a plausible slip: the response column of a failed row is filled with the error
Mut_TryRow(selfv, names, row, output, f) ==
    LET response == FunctionOnRow(f, row)
    IN  IF response.kind = "raise"
        THEN HandleError(selfv, names, TRUE, (names.response :> "error") @@ output, response.exc)
        ELSE Return((names.response :> response.resp) @@ output)

\* the body of the try block in row mode
TryRow(selfv, names, row, output, f) ==
    LET response == FunctionOnRow(f, row)
    IN  IF response.kind = "raise"
        THEN HandleError(selfv, names, TRUE, output, response.exc)
        ELSE Return((names.response :> response.resp) @@ output)

\* self.batch_response_parser(...) when the attribute is None
NotCallable == Exc("TypeError", Builtin, <<"'NoneType' object is not callable">>)

\* a plausible slip: the error messages of the parsed rows are not looked at
Mut_TryBatch(selfv, names, batch, output, f) ==
    LET response == FunctionOnBatch(f, batch)
    IN  IF response.kind = "raise"
        THEN HandleError(selfv, names, FALSE, output, response.exc)
        ELSE IF selfv.batch_response_parser = "None"
        THEN HandleError(selfv, names, FALSE, output, NotCallable)
        ELSE Return(batch_response_parser(BatchAfterCall(batch, f), response.resp, names))

\* the body of the try block in batch mode; the parser is given the batch as
\* the user function left it; without parser the call of
\* self.batch_response_parser raises inside the try block
TryBatch(selfv, names, batch, output, f) ==
    LET response == FunctionOnBatch(f, batch)
    IN  IF response.kind = "raise"
        THEN HandleError(selfv, names, FALSE, output, response.exc)
        ELSE IF selfv.batch_response_parser = "None"
        THEN HandleError(selfv, names, FALSE, output, NotCallable)
        ELSE LET parsed == batch_response_parser(BatchAfterCall(batch, f), response.resp, names)
                 errors == SelectSeq([i \in 1..Len(parsed) |-> parsed[i][names.error_message]],
                                     LAMBDA m : m # "")
             IN  IF errors # <<>>
                 THEN HandleError(selfv, names, FALSE, parsed, BatchErrorExc(StrList(errors)))
                 ELSE Return(parsed)

\* the wrapper: the value it returns or the exception it raises
_apply_function_and_parse_response(selfv, names, rowOpt, batchOpt, f) ==
    IF TruthyRow(rowOpt) /\ TruthyBatch(batchOpt)
    THEN Raise(Exc("ValueError", Builtin,
                   <<"Please use either row or batch as arguments, but not both">>))
    ELSE IF TruthyRow(rowOpt)
    THEN TryRow(selfv, names, rowOpt[1],
                BlankRow(deepcopy(rowOpt[1], RowAfterCall(rowOpt[1], f[rowOpt[1]])), names), f)
    ELSE IF batchOpt = None
    THEN \* output = deepcopy(None); for output_row in output
         Raise(Exc("TypeError", Builtin, <<"'NoneType' object is not iterable">>))
    ELSE TryBatch(selfv, names, batchOpt[1],
                  [i \in 1..Len(batchOpt[1]) |->
                      BlankRow(deepcopy(batchOpt[1], BatchAfterCall(batchOpt[1], f))[i], names)], f)

\* how many times the wrapper calls self.function: once, in the try block, when
\* it gets that far
FunctionCalls(rowOpt, batchOpt) ==
    IF TruthyRow(rowOpt) /\ TruthyBatch(batchOpt) THEN 0
    ELSE IF TruthyRow(rowOpt) THEN 1
    ELSE IF batchOpt = None THEN 0
    ELSE 1

--------------------------------------------------------------------------
\* DataFrameParallelizer._convert_results_to_df

\* DataFrame.drop(labels, axis=1): the columns named in labels are removed
DropColumns(table, labels) ==
    [columns |-> SelectSeq(table.columns, LAMBDA c : c \notin labels),
     rows |-> [i \in 1..Len(table.rows) |->
                  [c \in DOMAIN table.rows[i] \ labels |-> table.rows[i][c]]]]

\* DataFrame.from_records(results).reindex(columns=...).astype(str): one row per
\* record, in the order of the records; a column the record lacks reads "nan"
Reindex(records, columns) ==
    [columns |-> columns,
     rows |-> [i \in 1..Len(records) |->
                  [c \in Range(columns) |->
                      IF c \in DOMAIN records[i] THEN records[i][c] ELSE "nan"]]]

\* a plausible slip: the test of verbose is inverted
Mut_convert_results_to_df(selfv, table, res, names) ==
    LET output_df0 == Reindex(res, table.columns \o NamesList(names))
        output_df1 == IF selfv.verbose THEN DropColumns(output_df0, {names.error_raw})
                      ELSE output_df0
        error_columns == {names.error_message, names.error_type, names.error_raw}
    IN  IF selfv.error_handling = FAIL THEN DropColumns(output_df1, error_columns)
        ELSE output_df1

_convert_results_to_df(selfv, table, res, names) ==
    LET output_df0 == Reindex(res, table.columns \o NamesList(names))
        output_df1 == IF ~selfv.verbose THEN DropColumns(output_df0, {names.error_raw})
                      ELSE output_df0
        error_columns == {names.error_message, names.error_type, names.error_raw}
    IN  IF selfv.error_handling = FAIL THEN DropColumns(output_df1, error_columns)
        ELSE output_df1

--------------------------------------------------------------------------
\* Inputs: constructor arguments and tables

MinBatchSize == IF MaxBatchSize >= 2 THEN 2 ELSE 1

\* the parser of the model fulfils its contract (one row per row of the batch);
\* arguments that do not interact are not combined: the batch arguments keep
\* one value in row mode, verbose is tried on one worker, and a second prefix
\* is tried with the other arguments at one value
ConstructorArgs ==
    { a \in [error_handling : {LOG, FAIL},
             exceptions_to_catch : {{}, {"ValueError"}},
             parallel_workers : 1..MaxWorkers,
             batch_support : BOOLEAN,
             batch_size : {1} \cup MinBatchSize..MaxBatchSize,
             batch_response_parser : {"None", "aligned"},
             output_column_prefix : {"output", "api"},
             verbose : BOOLEAN] :
        /\ ~a.batch_support => (a.batch_size = 1 /\ a.batch_response_parser = "None")
        /\ (a.batch_support /\ a.batch_response_parser # "None") => a.batch_size >= MinBatchSize
        /\ a.verbose => a.parallel_workers = 1
        /\ a.output_column_prefix # "output" =>
              /\ a.error_handling = LOG /\ a.exceptions_to_catch # {}
              /\ a.parallel_workers = 1 /\ ~a.batch_support /\ a.verbose }

NoSelf ==
    [error_handling |-> LOG, exceptions_to_catch |-> {}, parallel_workers |-> 1,
     batch_support |-> FALSE, batch_size |-> 1, batch_response_parser |-> "None",
     output_column_prefix |-> "", verbose |-> FALSE]

Cells == {"a", "b"}

RowOf(columns, v) == [c \in Range(columns) |-> IF c = "id" THEN v ELSE "x"]

TableOf(columns, vs) == [columns |-> columns, rows |-> [i \in 1..Len(vs) |-> RowOf(columns, vs[i])]]

\* column names that collide with output column names
NamePool == <<"output_response", "output_response_1", "output_error_raw", "api_error_type">>

\* the cells of the rows of a table: the first row has cell "a" (the cells are
\* interchangeable), the other rows any cell, so that rows can repeat
CellSeqs == { vs \in UNION {[1..n -> Cells] : n \in 0..MaxRows} : vs # <<>> => vs[1] = "a" }

\* tables of up to MaxRows rows: with one column, without column (every row is
\* the empty mapping); and tables of at most one row with columns named as
\* output columns
Tables ==
    { TableOf(<<"id">>, vs) : vs \in CellSeqs }
    \cup { TableOf(<<>>, vs) : vs \in CellSeqs }
    \cup { TableOf(<<"id">> \o SelectSeq(NamePool, LAMBDA c : c \in S), vs) :
             S \in SUBSET Range(NamePool) \ {{}}, vs \in {<<>>, <<"a">>} }

NoTable == [columns |-> <<>>, rows |-> <<>>]

--------------------------------------------------------------------------
\* DataFrameParallelizer.__init__

\* a plausible slip: the catch set is required in fail mode too
Mut_InitRaises(a) ==
    \/ a.exceptions_to_catch = {}
    \/ a.batch_support /\ a.batch_response_parser = "None"

\* the constructor raises ValueError on an invalid configuration
InitRaises(a) ==
    \/ a.error_handling = LOG /\ a.exceptions_to_catch = {}
    \/ a.batch_support /\ a.batch_response_parser = "None"

Construct(a) ==
    /\ pc = "new"
    /\ self' = a
    /\ pc' = IF InitRaises(a) THEN "config_error" ELSE "ready"
    /\ UNCHANGED <<function_kwargs, pool_kwargs, call,
                   df, fn, units, len_generator, output_column_names, submitted, fut,
                   snapshot, waiterq, observed, results, pending_exc, output_df>>

--------------------------------------------------------------------------
\* DataFrameParallelizer.run

\* a plausible slip: the last, shorter group is lost
Mut_chunked(rows, n) ==
    [k \in 1..(Len(rows) \div n) |-> SubSeq(rows, (k - 1) * n + 1, k * n)]

\* more_itertools.chunked(rows, n): consecutive groups of n rows, the last one shorter
chunked(rows, n) ==
    [k \in 1..Ceil(Len(rows), n) |-> SubSeq(rows, (k - 1) * n + 1, Min(k * n, Len(rows)))]

\* a dict without the keys named
DropKeys(kwargs, keys) == [k \in DOMAIN kwargs \ keys |-> kwargs[k]]

\* run called without keyword argument
NoKwargs == <<>>

\* pool_kwargs: the output column names merged with the caller's keyword
\* arguments, which win on the same key; function, row and batch are popped,
\* and batch_response_parser when batch_support is off
PoolKwargs(selfv, names, kwargs) ==
    LET merged == kwargs @@ ("output_column_names" :> names)
        popped == DropKeys(merged, {"function", "row", "batch"})
    IN  IF ~selfv.batch_support /\ "batch_response_parser" \in DOMAIN popped
        THEN DropKeys(popped, {"batch_response_parser"})
        ELSE popped

NewFuture == [state |-> "queued", res |-> Return(<<>>), names |-> <<>>, calls |-> 0,
              kwargs |-> <<>>]

\* run up to the creation of the pool: generators, len_generator, output column
\* names and pool_kwargs
RunStart(table, kwargs) ==
    /\ pc = "ready"
    /\ df' = table
    /\ units' = IF self.batch_support THEN chunked(table.rows, self.batch_size) ELSE table.rows
    /\ len_generator' = IF self.batch_support THEN Ceil(Len(table.rows), self.batch_size)
                        ELSE Len(table.rows)
    /\ output_column_names' = _get_unique_output_column_names(self, Range(table.columns))
    /\ function_kwargs' = kwargs
    /\ pool_kwargs' = PoolKwargs(self, output_column_names', kwargs)
    /\ fut' = [u \in 1..Len(units') |-> NewFuture]
    /\ results' = <<>>
    /\ pc' = "submitting"
    /\ UNCHANGED <<call, self, fn, submitted, snapshot, waiterq, observed, pending_exc, output_df>>

\* pool.submit of the next unit of the generator
Submit ==
    /\ pc = "submitting"
    /\ submitted < Len(units)
    /\ submitted' = submitted + 1
    /\ UNCHANGED <<function_kwargs, pool_kwargs, call,
                   pc, self, df, fn, units, len_generator, output_column_names, fut,
                   snapshot, waiterq, observed, results, pending_exc, output_df>>

Running == {u \in 1..Len(units) : fut[u].state = "running"}
Finished == {u \in 1..Len(units) : fut[u].state = "finished"}

\* a plausible slip: a thread per work item, whatever max_workers is
Mut_Start(u) ==
    /\ pc \in {"submitting", "collecting", "shutdown"}
    /\ u <= submitted
    /\ fut[u].state = "queued"
    /\ \A v \in 1..(u - 1) : fut[v].state # "queued"
    /\ fut' = [fut EXCEPT ![u].state = "running"]
    /\ UNCHANGED <<function_kwargs, pool_kwargs, call,
                   pc, self, df, fn, units, len_generator, output_column_names, submitted,
                   snapshot, waiterq, observed, results, pending_exc, output_df>>

\* a worker thread takes the oldest queued work item
Start(u) ==
    /\ pc \in {"submitting", "collecting", "shutdown"}
    /\ u <= submitted
    /\ fut[u].state = "queued"
    /\ \A v \in 1..(u - 1) : fut[v].state # "queued"
    /\ Cardinality(Running) < self.parallel_workers
    /\ fut' = [fut EXCEPT ![u].state = "running"]
    /\ UNCHANGED <<function_kwargs, pool_kwargs, call,
                   pc, self, df, fn, units, len_generator, output_column_names, submitted,
                   snapshot, waiterq, observed, results, pending_exc, output_df>>

\* the rows the user function sees in a unit
UnitRows(u) == IF self.batch_support THEN Range(units[u]) ELSE {units[u]}

\* the call of the wrapper made for unit u by pool.submit(..., **pool_kwargs)
Invoke(u, f) ==
    LET names == pool_kwargs["output_column_names"]
    IN  IF self.batch_support
        THEN _apply_function_and_parse_response(self, names, None, Some(units[u]), f)
        ELSE _apply_function_and_parse_response(self, names, Some(units[u]), None, f)

\* the number of calls of the user function in that call of the wrapper
InvokeCalls(u) ==
    IF self.batch_support THEN FunctionCalls(None, Some(units[u]))
    ELSE FunctionCalls(Some(units[u]), None)

\* the unit of row j of the table
UnitOf(j) == IF self.batch_support THEN ((j - 1) \div self.batch_size) + 1 ELSE j

\* the unit after the call of the user function on it
UnitAfterCall(u, f) ==
    IF InvokeCalls(u) = 0 THEN units[u]
    ELSE IF self.batch_support THEN BatchAfterCall(units[u], f)
    ELSE RowAfterCall(units[u], f[units[u]])

\* the table after the call of the user function on unit u: the row mappings
\* of the generator are made by to_dict() and are not the table's, but their
\* cells are the cell objects of the table
TableAfterCall(table, u, f) ==
    IF InvokeCalls(u) = 0 THEN table
    ELSE [table EXCEPT !.rows =
             [j \in 1..Len(table.rows) |->
                 IF UnitOf(j) = u /\ f[table.rows[j]].mut = "inplace"
                 THEN RowAfterCall(table.rows[j], f[table.rows[j]])
                 ELSE table.rows[j]]]

\* the wrapper runs for unit u and its future completes; the user function
\* answers as before on a row it has seen, and in any way of outcomes on a new row
FinishOn(u, outcomes) ==
    /\ pc \in {"submitting", "collecting", "shutdown"}
    /\ fut[u].state = "running"
    /\ \E ext \in [UnitRows(u) \ DOMAIN fn -> outcomes] :
         /\ fn' = ext @@ fn
         /\ fut' = [fut EXCEPT ![u] =
                        [state |-> "finished", res |-> Invoke(u, fn'),
                         names |-> pool_kwargs["output_column_names"],
                         calls |-> InvokeCalls(u),
                         kwargs |-> DropKeys(pool_kwargs, {"output_column_names"})]]
         /\ units' = [units EXCEPT ![u] = UnitAfterCall(u, fn')]
         /\ df' = TableAfterCall(df, u, fn')
    /\ waiterq' = IF pc = "collecting" THEN Append(waiterq, u) ELSE waiterq
    /\ UNCHANGED <<function_kwargs, pool_kwargs, call, pc, self, len_generator,
                   output_column_names, submitted, snapshot, observed, results,
                   pending_exc, output_df>>

\* the work item of unit u with a user function that leaves its argument alone
Finish(u) == FinishOn(u, Outcomes(self))

\* the work item of unit u with a user function that can change its argument
FinishMutating(u) == FinishOn(u, MutatingOutcomes(self))

\* a plausible slip: the loop waits for a future even when there is none
Mut_BeginCollect ==
    /\ pc = "submitting"
    /\ submitted = Len(units)
    /\ snapshot' = Finished
    /\ pc' = "collecting"
    /\ UNCHANGED <<function_kwargs, pool_kwargs, call,
                   self, df, fn, units, len_generator, output_column_names, submitted, fut,
                   waiterq, observed, results, pending_exc, output_df>>

\* as_completed(futures) starts once every unit is submitted: the futures already
\* finished are yielded first, in the order of a set; without unit the loop ends
BeginCollect ==
    /\ pc = "submitting"
    /\ submitted = Len(units)
    /\ snapshot' = Finished
    /\ pc' = IF Len(units) = 0 THEN "shutdown" ELSE "collecting"
    /\ UNCHANGED <<function_kwargs, pool_kwargs, call,
                   self, df, fn, units, len_generator, output_column_names, submitted, fut,
                   waiterq, observed, results, pending_exc, output_df>>

\* one iteration of the loop: as_completed yields a future and future.result()
\* returns the value appended to results, or raises and leaves the with block
Collect(u) ==
    /\ pc = "collecting"
    /\ \/ u \in snapshot /\ snapshot' = snapshot \ {u} /\ waiterq' = waiterq
       \/ snapshot = {} /\ waiterq # <<>> /\ u = Head(waiterq)
          /\ waiterq' = Tail(waiterq) /\ snapshot' = snapshot
    /\ observed' = Append(observed, u)
    /\ IF fut[u].res.kind = "return"
       THEN /\ results' = Append(results, fut[u].res.value)
            /\ pending_exc' = pending_exc
            /\ pc' = IF Len(observed') = Len(units) THEN "shutdown" ELSE "collecting"
       ELSE /\ results' = results
            /\ pending_exc' = Some(fut[u].res.exc)
            /\ pc' = "shutdown"
    /\ UNCHANGED <<function_kwargs, pool_kwargs, call,
                   self, df, fn, units, len_generator, output_column_names, submitted, fut,
                   output_df>>

\* the with block is left after an exception: the pool is shut down, waiting
\* for every work item, and the exception reaches the caller
RaiseToCaller ==
    /\ pc = "shutdown"
    /\ pending_exc # None
    /\ Finished = 1..Len(units)
    /\ pc' = "raised"
    /\ UNCHANGED <<function_kwargs, pool_kwargs, call,
                   self, df, fn, units, len_generator, output_column_names, submitted, fut,
                   snapshot, waiterq, observed, results, pending_exc, output_df>>

\* the with block is left normally: results are flattened in batch mode and
\* converted to the output table, which run returns
ReturnTable ==
    /\ pc = "shutdown"
    /\ pending_exc = None
    /\ Finished = 1..Len(units)
    /\ output_df' = Some(_convert_results_to_df(self, df,
                            IF self.batch_support THEN FlattenSeq(results) ELSE results,
                            output_column_names))
    /\ pc' = "returned"
    /\ UNCHANGED <<function_kwargs, pool_kwargs, call,
                   self, df, fn, units, len_generator, output_column_names, submitted, fut,
                   snapshot, waiterq, observed, results, pending_exc>>

--------------------------------------------------------------------------
Init ==
    /\ pc = "new"
    /\ self = NoSelf
    /\ df = NoTable
    /\ fn = <<>>
    /\ units = <<>>
    /\ len_generator = 0
    /\ output_column_names = <<>>
    /\ submitted = 0
    /\ fut = <<>>
    /\ snapshot = {}
    /\ waiterq = <<>>
    /\ observed = <<>>
    /\ results = <<>>
    /\ pending_exc = None
    /\ output_df = None
    /\ function_kwargs = NoKwargs
    /\ pool_kwargs = NoKwargs
    /\ call = None

Next ==
    \/ \E a \in ConstructorArgs : Construct(a)
    \/ \E table \in Tables : RunStart(table, NoKwargs)
    \/ Submit
    \/ \E u \in 1..Len(units) : Start(u)
    \/ \E u \in 1..Len(units) : Finish(u)
    \/ BeginCollect
    \/ \E u \in 1..Len(units) : Collect(u)
    \/ RaiseToCaller
    \/ ReturnTable

Spec == Init /\ [][Next]_vars

--------------------------------------------------------------------------
\* Vocabulary of the properties

\* the table returned by run
Returned == pc = "returned"
OutputTable == output_df[1]

\* the input columns of a row of the output table
InputPart(row) == [c \in Range(df.columns) |-> row[c]]

\* the user function is called on unit u (row mode: only for a truthy row)
Called(u) == self.batch_support \/ DOMAIN units[u] # {}

\* what the user function does on unit u
FunctionOn(u) ==
    IF self.batch_support THEN FunctionOnBatch(fn, units[u]) ELSE FunctionOnRow(fn, units[u])

\* number of indices of a sequence whose element satisfies P
CountIn(seq, P(_)) == Cardinality({i \in 1..Len(seq) : P(seq[i])})

--------------------------------------------------------------------------
\* C1: a run that returns yields a table with as many rows as the input, and
\* every input row is present in it exactly as many times as in the input: no
\* row is dropped or duplicated by batching, dispatch, collection or flattening
C1_RowsPreserved ==
    Returned =>
        /\ Len(OutputTable.rows) = Len(df.rows)
        /\ \A r \in Range(df.rows) :
              CountIn(OutputTable.rows, LAMBDA o : InputPart(o) = r)
                  = CountIn(df.rows, LAMBDA i : i = r)

\* a batch run of three rows in batches of two, collected out of submission order
C1_Witness ==
    /\ Returned
    /\ self.batch_support /\ self.batch_size = 2
    /\ Len(df.rows) = 3 /\ df.rows[1] = df.rows[3] /\ df.rows[1] # df.rows[2]
    /\ observed = <<2, 1>>

--------------------------------------------------------------------------
\* Error isolation (log mode, row mode)

\* the user function raises an exception of the catch set on the row
RaisesCaught(row) == fn[row].kind = "raise" /\ Catches(self, fn[row].exc)

\* the user function returns a non-empty response on the row
AnswersNonEmpty(row) == fn[row].kind = "ok" /\ fn[row].resp # ""

\* a returned log-mode, row-mode run of N > 1 rows where the function raised a
\* caught exception on exactly one row and answered on the others
OneFailureAmongN ==
    /\ Returned
    /\ self.error_handling = LOG /\ ~self.batch_support
    /\ Len(df.rows) > 1
    /\ CountIn(df.rows, RaisesCaught) = 1
    /\ CountIn(df.rows, AnswersNonEmpty) = Len(df.rows) - 1

\* C2 as stated: with one failing row among N, the table has N rows, exactly
\* one with empty response and populated error_message and error_type, and the
\* N-1 others with populated response and empty error fields
C2_OneErrorRowPopulated ==
    OneFailureAmongN =>
        LET rows == OutputTable.rows
            n == output_column_names
            Failed(o) == o[n.response] = "" /\ o[n.error_message] # "" /\ o[n.error_type] # ""
            Succeeded(o) == o[n.response] # "" /\ o[n.error_message] = "" /\ o[n.error_type] = ""
        IN  /\ Len(rows) = Len(df.rows)
            /\ CountIn(rows, Failed) = 1
            /\ CountIn(rows, Succeeded) = Len(df.rows) - 1

\* C2 amended: with one failing row among N, the table has N rows; the row of
\* the failing input has an empty response, a populated error_type and the
\* string form of its exception as error_message (empty when the exception
\* carries no message); every other row has the response the function gave for
\* it and empty error fields, whatever the interleaving of the workers
C2_OneErrorRowIsolated ==
    OneFailureAmongN =>
        LET rows == OutputTable.rows
            n == output_column_names
            Failed(o) == /\ RaisesCaught(InputPart(o))
                         /\ o[n.response] = ""
                         /\ o[n.error_type] # ""
                         /\ o[n.error_message] = StrExc(fn[InputPart(o)].exc)
            Succeeded(o) == /\ AnswersNonEmpty(InputPart(o))
                            /\ o[n.response] = fn[InputPart(o)].resp
                            /\ o[n.error_message] = "" /\ o[n.error_type] = ""
        IN  /\ Len(rows) = Len(df.rows)
            /\ CountIn(rows, Failed) = 1
            /\ CountIn(rows, Succeeded) = Len(df.rows) - 1

\* three rows on two workers, the failing one in the middle, collected out of order
C2_Witness ==
    /\ OneFailureAmongN
    /\ Len(df.rows) = 3 /\ RaisesCaught(df.rows[2])
    /\ self.parallel_workers = 2
    /\ observed = <<2, 3, 1>>

--------------------------------------------------------------------------
\* C3 as stated: the i-th row of the returned table carries the input columns
\* of the i-th input row, for every completion order of the workers
C3_AlignedWithInput ==
    Returned =>
        /\ Len(OutputTable.rows) = Len(df.rows)
        /\ \A i \in 1..Len(OutputTable.rows) : InputPart(OutputTable.rows[i]) = df.rows[i]

--------------------------------------------------------------------------
\* the table of a run that collects the unit results in submission order
SubmissionOrderTable ==
    LET res == [u \in 1..Len(units) |-> Invoke(u, fn).value]
    IN  _convert_results_to_df(self, df,
                               IF self.batch_support THEN FlattenSeq(res) ELSE res,
                               output_column_names)

\* C4 as stated: in log mode the returned table is the same for every worker
\* schedule: it is the table of the run that collects in submission order
C4_SameTableForEverySchedule ==
    (Returned /\ self.error_handling = LOG) => OutputTable = SubmissionOrderTable

--------------------------------------------------------------------------
\* the invocation of unit u fails in the sense of the except clause: the user
\* function raises an exception of the catch set, or the parsed batch has a row error
FailsCaught(u) ==
    /\ Called(u)
    /\ \/ FunctionOn(u).kind = "raise" /\ Catches(self, FunctionOn(u).exc)
       \/ self.batch_support /\ FunctionOn(u).kind = "ok"
          /\ \E i \in 1..Len(units[u]) : fn[units[u][i]].kind = "rowerr"

Last(seq) == seq[Len(seq)]

\* C5: in fail mode a unit that fails makes its future raise; then run returns
\* no table, not even a partial one, and the exception that reaches the caller
\* is the one of the first failing future yielded by as_completed
C5_FailModeAbort ==
    self.error_handling = FAIL =>
        /\ \A u \in Finished : FailsCaught(u) => fut[u].res.kind = "raise"
        /\ (\E u \in Finished : fut[u].res.kind = "raise") => (~Returned /\ output_df = None)
        /\ pc = "raised" =>
              /\ pending_exc = Some(fut[Last(observed)].res.exc)
              /\ fut[Last(observed)].res.kind = "raise"
              /\ \A k \in 1..(Len(observed) - 1) : fut[observed[k]].res.kind = "return"

\* a fail-mode run of three rows aborted by the ValueError of the second future
\* observed, while the third unit also failed
C5_Witness ==
    /\ pc = "raised"
    /\ self.error_handling = FAIL /\ self.exceptions_to_catch = {"ValueError"}
    /\ Len(units) = 3 /\ Len(observed) = 2
    /\ FailsCaught(observed[2])
    /\ pending_exc[1].cls = "ValueError"
    /\ \E u \in 1..3 : u \notin Range(observed) /\ FailsCaught(u)

--------------------------------------------------------------------------
\* the user function (or the parser) raises on unit u an exception that is
\* neither of the catch set nor a BatchError
RaisesUncaught(u) ==
    /\ Called(u)
    /\ FunctionOn(u).kind = "raise"
    /\ \A c \in self.exceptions_to_catch \cup {"BatchError"} : ~IsSubclass(FunctionOn(u).exc.cls, c)

\* C6: an exception outside the catch set is never written into error fields:
\* in log mode as in fail mode the wrapper raises it, and run returns no table
C6_UnmatchedPropagates ==
    /\ \A u \in Finished : RaisesUncaught(u) => fut[u].res = Raise(FunctionOn(u).exc)
    /\ (\E u \in Finished : RaisesUncaught(u)) => (~Returned /\ output_df = None)
    /\ \A u \in Range(observed) :
          RaisesUncaught(u) => (u = Last(observed) /\ pending_exc = Some(FunctionOn(u).exc))

\* a log-mode run aborted by a RuntimeError while ValueError is caught
C6_Witness ==
    /\ pc = "raised"
    /\ self.error_handling = LOG /\ self.exceptions_to_catch = {"ValueError"}
    /\ Len(observed) = 2
    /\ RaisesUncaught(observed[2])
    /\ pending_exc[1].cls = "RuntimeError"
    /\ \E u \in Finished : FailsCaught(u)

--------------------------------------------------------------------------
\* C7: the constructor fails exactly when it is given log mode with an empty
\* catch set, or batch support without parser (so fail mode with an empty catch
\* set is accepted); when it fails no unit was built, submitted or invoked
C7_ConstructionValidation ==
    pc # "new" =>
        /\ pc = "config_error" <=>
              \/ self.error_handling = LOG /\ self.exceptions_to_catch = {}
              \/ self.batch_support /\ self.batch_response_parser = "None"
        /\ pc = "config_error" =>
              /\ units = <<>> /\ fut = <<>> /\ submitted = 0
              /\ fn = <<>> /\ results = <<>> /\ output_df = None

\* the constructor refused log mode with an empty catch set
C7_Witness ==
    /\ pc = "config_error"
    /\ self.error_handling = LOG /\ self.exceptions_to_catch = {}
    /\ ~self.batch_support

--------------------------------------------------------------------------
\* C8 as stated: in log mode, in every returned table (row mode and batch
\* mode), a row has an empty response if and only if its error_message and
\* error_type are populated
C8_EmptyResponseIffError ==
    (Returned /\ self.error_handling = LOG) =>
        \A i \in 1..Len(OutputTable.rows) :
            LET o == OutputTable.rows[i]
                n == output_column_names
            IN  o[n.response] = "" <=> (o[n.error_message] # "" /\ o[n.error_type] # "")

\* C8 amended: in log mode and row mode, in every returned table, a row on
\* which the function raised has an empty response and a populated error_type,
\* and every row with a populated response has empty error_message and
\* error_type
C8_RowModeErrorExcludesResponse ==
    (Returned /\ self.error_handling = LOG /\ ~self.batch_support) =>
        \A i \in 1..Len(OutputTable.rows) :
            LET o == OutputTable.rows[i]
                n == output_column_names
            IN  /\ fn[InputPart(o)].kind = "raise" => (o[n.response] = "" /\ o[n.error_type] # "")
                /\ o[n.error_type] # "" => o[n.response] = ""
                /\ o[n.response] # "" => (o[n.error_message] = "" /\ o[n.error_type] = "")

\* a returned row-mode table with a failed row and an answered row
C8_Witness ==
    /\ Returned /\ self.error_handling = LOG /\ ~self.batch_support
    /\ \E i, j \in 1..Len(OutputTable.rows) :
          /\ OutputTable.rows[i][output_column_names.error_type] = "ValueError"
          /\ OutputTable.rows[i][output_column_names.error_message] = "boom"
          /\ OutputTable.rows[j][output_column_names.response] = "ok"

--------------------------------------------------------------------------
\* C9: the columns of the returned table are the input columns in their order,
\* followed by response, error_message, error_type, error_raw, without
\* error_raw when verbose is off, and with response only in fail mode
C9_OutputColumns ==
    Returned =>
        LET n == output_column_names
            expected == IF self.error_handling = FAIL THEN <<n.response>>
                        ELSE IF self.verbose
                             THEN <<n.response, n.error_message, n.error_type, n.error_raw>>
                             ELSE <<n.response, n.error_message, n.error_type>>
        IN  /\ OutputTable.columns = df.columns \o expected
            /\ \A i \in 1..Len(OutputTable.rows) :
                  DOMAIN OutputTable.rows[i] = Range(OutputTable.columns)

\* a verbose log-mode table of one row with several input columns
C9_Witness ==
    /\ Returned
    /\ self.error_handling = LOG /\ self.verbose
    /\ Len(df.columns) >= 3 /\ Len(OutputTable.rows) = 1
    /\ Len(OutputTable.columns) = Len(df.columns) + 4

--------------------------------------------------------------------------
\* C10: the four output column names differ from every input column name and
\* from each other; they are computed once, when run starts, and every unit of
\* the run is invoked with that tuple
C10_UniqueOutputColumnNames ==
    pc \in {"submitting", "collecting", "shutdown", "returned", "raised"} =>
        LET n == output_column_names
            fields == Range(OUTPUT_COLUMN_NAME_DESCRIPTIONS)
        IN  /\ DOMAIN n = fields
            /\ \A f \in fields : n[f] \notin Range(df.columns)
            /\ \A f, g \in fields : f # g => n[f] # n[g]
            /\ \A u \in Finished : fut[u].names = n

\* a run on a table that already has columns output_response and output_response_1
C10_Witness ==
    /\ Returned
    /\ {"output_response", "output_response_1"} \subseteq Range(df.columns)
    /\ output_column_names.response = "output_response_2"
    /\ Finished # {}

--------------------------------------------------------------------------
\* the positions of the caller inside run, and after it
InRun == pc \in {"submitting", "collecting", "shutdown"}
AfterRun == pc \in {"returned", "raised"}

\* C12: at any time the number of invocations that execute is at most
\* parallel_workers, although every unit is submitted before a result is consumed
C12_BoundedConcurrency ==
    /\ Cardinality(Running) <= self.parallel_workers
    /\ observed # <<>> => submitted = Len(units)
    /\ pc \in {"collecting", "shutdown", "returned", "raised"} => submitted = Len(units)

\* both workers are busy while a submitted unit waits in the queue
C12_Witness ==
    /\ pc = "collecting"
    /\ self.parallel_workers = 2 /\ Cardinality(Running) = 2
    /\ submitted = 3 /\ fut[3].state = "queued"

--------------------------------------------------------------------------
\* the parsed result of batch u has a row with an error message
BatchHasRowError(u) ==
    /\ self.batch_support
    /\ FunctionOn(u).kind = "ok"
    /\ \E i \in 1..Len(units[u]) : fn[units[u][i]].kind = "rowerr"

\* the single error of batch u: BatchError(str(errors))
BatchErrorOf(u) ==
    BatchErrorExc(StrList(SelectSeq([i \in 1..Len(units[u]) |-> fn[units[u][i]].msg],
                                    LAMBDA m : m # "")))

\* C14: a batch whose parsed result has a row with an error message is one
\* failed invocation: in log mode every row of its result, also a row the
\* parser filled with a response, gets error_message, error_type and error_raw
\* from the one BatchError and the invocation returns; in fail mode it raises
\* the BatchError and run returns no table
C14_BatchAggregationError ==
    \A u \in Finished : BatchHasRowError(u) =>
        LET n == output_column_names
            v == fut[u].res.value
        IN  IF self.error_handling = LOG
            THEN /\ fut[u].res.kind = "return"
                 /\ Len(v) = Len(units[u])
                 /\ \A i \in 1..Len(v) :
                       /\ v[i][n.error_message] = StrExc(BatchErrorOf(u))
                       /\ v[i][n.error_message] # ""
                       /\ v[i][n.error_type] = "dkulib.parallelizer.parallelizer.BatchError"
                       /\ v[i][n.error_raw] = StrArgs(BatchErrorOf(u))
                       /\ v[i][n.response] = fn[units[u][i]].resp
            ELSE /\ fut[u].res = Raise(BatchErrorOf(u))
                 /\ ~Returned /\ output_df = None

\* a returned log-mode table of two batches: the first has a row error and a
\* row with a response, the second has no error
C14_Witness ==
    /\ Returned /\ self.error_handling = LOG /\ self.batch_support
    /\ Len(units) = 2 /\ Len(units[1]) = 2
    /\ BatchHasRowError(1) /\ ~BatchHasRowError(2)
    /\ \E i \in 1..2 : fut[1].res.value[i][output_column_names.response] = "ok"
    /\ fut[1].res.value[1][output_column_names.error_message] = "['bad']"
    /\ fut[2].res.value[1][output_column_names.error_message] = ""

--------------------------------------------------------------------------
\* C15: row mode has one unit per row; batch mode with batch size b and n rows
\* has ceil(n / b) units of 1 to b rows, only the last one shorter than b,
\* whose concatenation is the input rows; len_generator is the number of
\* units, all of which are submitted
C15_UnitBuilding ==
    (InRun \/ AfterRun) =>
        LET n == Len(df.rows)
            b == self.batch_size
            k == Len(units)
        IN  /\ ~self.batch_support => units = df.rows
            /\ self.batch_support =>
                  /\ k * b >= n /\ (k > 0 => (k - 1) * b < n)
                  /\ \A j \in 1..k : Len(units[j]) >= 1 /\ Len(units[j]) <= b
                  /\ \A j \in 1..(k - 1) : Len(units[j]) = b
                  /\ FlattenSeq(units) = df.rows
            /\ len_generator = k
            /\ submitted <= k
            /\ pc # "submitting" => submitted = k

\* three rows in batches of two: a batch of two rows and a batch of one row
C15_Witness ==
    /\ pc = "collecting"
    /\ self.batch_support /\ self.batch_size = 2
    /\ Len(df.rows) = 3 /\ len_generator = 2
    /\ Len(units[1]) = 2 /\ Len(units[2]) = 1

--------------------------------------------------------------------------
\* unit u of a row-mode run is an empty row mapping
EmptyRowUnit(u) == ~self.batch_support /\ DOMAIN units[u] = {}

\* C19: in row mode the wrapper does not take the row branch for an empty row
\* mapping: it goes on with batch absent and ends with an error that no except
\* clause catches, in log mode as in fail mode, so that the invocation gives
\* no unit result and run returns no table
C19_EmptyRowTreatedAsAbsent ==
    /\ \A u \in Finished : EmptyRowUnit(u) =>
          /\ fut[u].res.kind = "raise"
          /\ fut[u].res.exc.cls = "TypeError"
          /\ fut[u].res.exc.cls \notin self.exceptions_to_catch
    /\ (\E u \in 1..Len(units) : EmptyRowUnit(u)) => (~Returned /\ results = <<>>)
    /\ (\E u \in Range(observed) : EmptyRowUnit(u)) => pending_exc = Some(fut[observed[1]].res.exc)

\* a log-mode run on two rows without column, aborted by the error
C19_Witness ==
    /\ pc = "raised" /\ self.error_handling = LOG
    /\ df.columns = <<>> /\ Len(df.rows) = 2 /\ EmptyRowUnit(1)
    /\ pending_exc[1].cls = "TypeError"

--------------------------------------------------------------------------
\* run called with keyword arguments

\* a tuple of output column names a caller can pass under the reserved name
CallerNames ==
    [response |-> "r", error_message |-> "m", error_type |-> "t", error_raw |-> "w"]

\* the keyword arguments of the caller: a plain one, and the reserved names
KwargChoices ==
    { "lang" :> "en",
      "output_column_names" :> CallerNames,
      ("batch_response_parser" :> "parser") @@ ("lang" :> "en"),
      ("function" :> "g") @@ ("row" :> "r") @@ ("batch" :> "b") @@ ("lang" :> "en") }

NextKw ==
    \/ \E a \in ConstructorArgs : Construct(a)
    \/ \E table \in Tables, kwargs \in KwargChoices : RunStart(table, kwargs)
    \/ Submit
    \/ \E u \in 1..Len(units) : Start(u)
    \/ \E u \in 1..Len(units) : Finish(u)
    \/ BeginCollect
    \/ \E u \in 1..Len(units) : Collect(u)
    \/ RaiseToCaller
    \/ ReturnTable

SpecKw == Init /\ [][NextKw]_vars

\* the names the engine keeps for itself
ReservedNames == {"function", "row", "batch", "output_column_names", "batch_response_parser"}

\* C11: every unit is invoked with the output column names run derived and
\* with the caller's keyword arguments less the reserved names, unchanged, in
\* row mode and in batch mode
C11_ReservedStripped ==
    \A u \in Finished :
        /\ fut[u].names = output_column_names
        /\ fut[u].kwargs = DropKeys(function_kwargs, ReservedNames)

--------------------------------------------------------------------------
\* C13: when run has returned a table or raised, every unit's invocation has
\* completed and the user function was called exactly once on each unit, also
\* on the units still queued when the failing exception was observed
C13_NoCancelNoRetry ==
    AfterRun => \A u \in 1..Len(units) : fut[u].state = "finished" /\ fut[u].calls = 1

--------------------------------------------------------------------------
\* The wrapper called on its own, on an engine already constructed

ReadySelves == {a \in ConstructorArgs : ~InitRaises(a)}

\* the row argument: absent, an empty mapping, a row
WrapperRows == {None, Some(<<>>), Some(RowOf(<<"id">>, "a"))}

\* the batch argument: absent, an empty list, a list of one or two rows
WrapperBatches ==
    {None, Some(<<>>), Some(<<RowOf(<<"id">>, "a")>>),
     Some(<<RowOf(<<"id">>, "a"), RowOf(<<"id">>, "b")>>)}

\* the rows the user function can be given in that call
ArgRows(rowOpt, batchOpt) ==
    (IF rowOpt = None THEN {} ELSE {rowOpt[1]})
    \cup (IF batchOpt = None THEN {} ELSE Range(batchOpt[1]))

\* self._apply_function_and_parse_response(output_column_names, row=, batch=)
CallWrapper(rowOpt, batchOpt) ==
    /\ pc = "ready"
    /\ call = None
    /\ \E f \in [ArgRows(rowOpt, batchOpt) ->
                    IF TruthyRow(rowOpt) THEN RowOutcomes ELSE BatchOutcomes] :
         /\ fn' = f
         /\ call' = Some([row |-> rowOpt, batch |-> batchOpt,
                          res |-> _apply_function_and_parse_response(
                                      self, _get_unique_output_column_names(self, {}),
                                      rowOpt, batchOpt, f),
                          calls |-> FunctionCalls(rowOpt, batchOpt)])
    /\ UNCHANGED <<function_kwargs, pool_kwargs, pc, self, df, units, len_generator,
                   output_column_names, submitted, fut, snapshot, waiterq, observed,
                   results, pending_exc, output_df>>

InitWrapper ==
    /\ pc = "ready"
    /\ self \in ReadySelves
    /\ df = NoTable
    /\ fn = <<>>
    /\ units = <<>>
    /\ len_generator = 0
    /\ output_column_names = <<>>
    /\ submitted = 0
    /\ fut = <<>>
    /\ snapshot = {}
    /\ waiterq = <<>>
    /\ observed = <<>>
    /\ results = <<>>
    /\ pending_exc = None
    /\ output_df = None
    /\ function_kwargs = NoKwargs
    /\ pool_kwargs = NoKwargs
    /\ call = None

NextWrapper == \E rowOpt \in WrapperRows, batchOpt \in WrapperBatches : CallWrapper(rowOpt, batchOpt)

SpecWrapper == InitWrapper /\ [][NextWrapper]_vars

\* C16: the wrapper called with both row and batch, or with neither, raises
\* the configuration error (a ValueError) at once, without calling the user
\* function
C16_ExactlyOneOfRowOrBatch ==
    call # None =>
        LET c == call[1]
            both == c.row # None /\ c.batch # None
            neither == c.row = None /\ c.batch = None
        IN  (both \/ neither) =>
                /\ c.res.kind = "raise"
                /\ c.res.exc.cls = "ValueError"
                /\ c.calls = 0

--------------------------------------------------------------------------
\* run with a user function that can change the row or batch it is given

MutatingSelves ==
    {a \in ReadySelves : ~a.verbose /\ a.output_column_prefix = "output"
                         /\ a.exceptions_to_catch = {"ValueError"}}

InitMutating ==
    /\ pc = "ready"
    /\ self \in MutatingSelves
    /\ df = NoTable
    /\ fn = <<>>
    /\ units = <<>>
    /\ len_generator = 0
    /\ output_column_names = <<>>
    /\ submitted = 0
    /\ fut = <<>>
    /\ snapshot = {}
    /\ waiterq = <<>>
    /\ observed = <<>>
    /\ results = <<>>
    /\ pending_exc = None
    /\ output_df = None
    /\ function_kwargs = NoKwargs
    /\ pool_kwargs = NoKwargs
    /\ call = None

NextMutating ==
    \/ \E vs \in CellSeqs : RunStart(TableOf(<<"id">>, vs), NoKwargs)
    \/ Submit
    \/ \E u \in 1..Len(units) : Start(u)
    \/ \E u \in 1..Len(units) : FinishMutating(u)
    \/ BeginCollect
    \/ \E u \in 1..Len(units) : Collect(u)
    \/ RaiseToCaller
    \/ ReturnTable

SpecMutating == InitMutating /\ [][NextMutating]_vars

\* the step in which the invocation of unit u completes
Completes(u) == u \in Running /\ fut'[u].state = "finished"

\* the input columns of a row of a result
InputColumns(row) == [c \in Range(df.columns) |-> row[c]]

\* C18 as claimed: from the start of run on, no step changes the rows of the
\* input table; in row mode the result of a unit holds the row as it was
\* before the call, the results of the other units stay as they are, and the
\* call changes no other unit
C18_DeepCopyIsolation ==
    [][ pc # "ready" =>
          /\ df' = df
          /\ \A u \in 1..Len(units) :
                /\ (Completes(u) /\ ~self.batch_support /\ fut'[u].res.kind = "return")
                      => InputColumns(fut'[u].res.value) = units[u]
                /\ u \in Finished => fut'[u] = fut[u]
                /\ ~Completes(u) => units'[u] = units[u] ]_vars

\* C18 amended: a step changes the input table only when it completes an
\* invocation whose user function changed a cell object in place; run itself
\* and a user function that binds keys of its row never do; in row mode the
\* result of a unit holds the row as it was before the call, the results of
\* the other units stay as they are, and the call changes no other unit
C18_ResultIsolation ==
    [][ pc # "ready" =>
          /\ df' # df =>
                \E u \in 1..Len(units) :
                    /\ Completes(u)
                    /\ \E row \in UnitRows(u) : fn'[row].mut = "inplace"
                    /\ \A j \in 1..Len(df.rows) : UnitOf(j) # u => df'.rows[j] = df.rows[j]
          /\ \A u \in 1..Len(units) :
                /\ (Completes(u) /\ ~self.batch_support /\ fut'[u].res.kind = "return")
                      => InputColumns(fut'[u].res.value) = units[u]
                /\ u \in Finished => fut'[u] = fut[u]
                /\ ~Completes(u) => units'[u] = units[u] ]_vars

\* a row-mode run returned a table: the user function bound the key of the
\* first row to another value and changed the cell of the second row in
\* place; both results hold the rows as they were, and only the second row of
\* the input table changed
C18_Witness ==
    /\ Returned /\ ~self.batch_support /\ Len(units) = 2
    /\ units[1]["id"] = "z" /\ df.rows[1]["id"] = "a"
    /\ units[2]["id"] = "z" /\ df.rows[2]["id"] = "z"
    /\ fut[1].res.value["id"] = "a"
    /\ fut[2].res.value["id"] \in Cells

--------------------------------------------------------------------------
\* Runs of a constructed engine whose user function answers or raises an
\* exception of the catch set or another one

LiveOutcomes ==
    { OutOk("ok"),
      OutRaise(Exc("ValueError", Builtin, <<"boom">>)),
      OutRaise(Exc("RuntimeError", Builtin, <<"down">>)) }

FinishLive(u) == FinishOn(u, LiveOutcomes)

InitLive == InitWrapper /\ ~self.verbose /\ self.exceptions_to_catch = {"ValueError"}

NextLive ==
    \/ \E columns \in {<<"id">>, <<>>}, vs \in CellSeqs : RunStart(TableOf(columns, vs), NoKwargs)
    \/ Submit
    \/ \E u \in 1..Len(units) : Start(u)
    \/ \E u \in 1..Len(units) : FinishLive(u)
    \/ BeginCollect
    \/ \E u \in 1..Len(units) : Collect(u)
    \/ RaiseToCaller
    \/ ReturnTable

\* Scheduling: the caller's thread goes on with run, a worker thread that is
\* free takes a queued work item, and a call of the user function or of the
\* parser that has started comes to an end
Fairness ==
    /\ WF_vars(Submit)
    /\ WF_vars(\E u \in 1..Len(units) : Start(u))
    /\ WF_vars(\E u \in 1..Len(units) : FinishLive(u))
    /\ WF_vars(BeginCollect)
    /\ WF_vars(\E u \in 1..Len(units) : Collect(u))
    /\ WF_vars(RaiseToCaller)
    /\ WF_vars(ReturnTable)

FairSpec == InitLive /\ [][NextLive]_vars /\ Fairness

\* C17: every run comes to an end, by a return or by an exception, for every
\* worker count and every schedule; and a table is returned only after the
\* result of every unit was collected
C17_Termination ==
    /\ InRun ~> AfterRun
    /\ [](Returned => /\ Range(observed) = 1..Len(units)
                      /\ Len(results) = Len(units)
                      /\ \A u \in 1..Len(units) : fut[u].res.kind = "return")

\* a log-mode run on two workers returned a table after collecting three units
\* in another order than they were submitted
C17_Witness ==
    /\ Returned /\ self.error_handling = LOG /\ self.parallel_workers = 2
    /\ Len(units) = 3 /\ Len(observed) = 3 /\ observed[1] # 1

====
